---- MODULE Spec2Model ----
(***************************************************************************)
(* A model of hphp/runtime/vm/jit/region_selection.cpp: RegionDesc::Block  *)
(* and its invariant checker, createRegion (tracelet -> region) and        *)
(* selectRegion (the dispatcher).                                          *)
(*                                                                         *)
(* Two specifications share the variables:                                 *)
(*   Spec       one call of selectRegion, createRegion stepped one         *)
(*              instruction / one dependency / one reffiness fact at a     *)
(*              time;                                                      *)
(*   SpecBlock  the public mutators of one RegionDesc::Block called with   *)
(*              arbitrary arguments.                                       *)
(***************************************************************************)
EXTENDS Integers, Sequences, FiniteSets, TLC

VARIABLES
  debug,     \* the build: TRUE when assertions are compiled in
  config,    \* RuntimeOption::EvalJitRegionSelector
  hasTrace,  \* selectRegion's argument t is not null
  pc,        \* "start" | "loop" | "deps" | "refdeps" | "done" | "block"
  outcome,   \* "pending" | "region" | "none" | "fatal"
  invoked,   \* the strategies called so far, in call order
  raised,    \* what the strategy raised: "no" | "exception" | "fatal"
  unit,      \* the decoded part of the code unit: offset -> [op, imm]
  trace,     \* the NormalizedInstructions consumed so far
  sk,        \* createRegion's running SrcKey offset
  startSk,   \* tlet.m_sk
  region,    \* region->blocks
  deps,      \* the entries of tlet.m_dependencies visited so far (pool indices)
  refDeps,   \* the entries of tlet.m_refDeps.m_arMap visited so far (pool indices)
  call       \* SpecBlock: the last Block mutator called and its arguments;
             \* Spec: the rendering of the region handed to FTRACE

vars == <<debug, config, hasTrace, pc, outcome, invoked, raised, unit, trace,
          sk, startSk, region, deps, refDeps, call>>

(***************************************************************************)
(* Bounds of the model.                                                    *)
(***************************************************************************)
MaxTrace == 3      \* instructions in a tracelet
MaxDeps == 2       \* entries of tlet.m_dependencies
MaxBlockLen == 3   \* SpecBlock: instructions appended to the block
MaxGuards == 1     \* SpecBlock: entries of the block's three mappings together
NumLocals == 2     \* m_func->numLocals()

TwoTo16 == 65536

\* uint32_t(x) for an int x: the value modulo 2^32, held as its two 16-bit
\* halves (hi * 2^16 + lo).
ToUint32(x) == [hi |-> (x \div TwoTo16) % TwoTo16, lo |-> x % TwoTo16]

\* a < n for a uint32_t a and a non-negative int n below 2^16.
Uint32Less(a, n) == a.hi = 0 /\ a.lo < n

(***************************************************************************)
(* The bytecode table, as far as region_selection.cpp reads it.            *)
(***************************************************************************)
Ops == {"Nop", "FPassC", "FCall", "JmpZ", "Jmp"}

\* Encoded size of an instruction: opcode byte plus immediates
\* (FPassC and FCall take one IVA byte, Jmp and JmpZ a 4-byte BA).
InstrLen(op) ==
  CASE op = "Nop" -> 1
    [] op = "FPassC" -> 2
    [] op = "FCall" -> 2
    [] op = "JmpZ" -> 5
    [] op = "Jmp" -> 5

\* instrFlags(op) & TF: the instruction never falls through.
IsTF(op) == op = "Jmp"

\* instrIsNonCallControlFlow(op)
InstrIsNonCallControlFlow(op) == op \in {"Jmp", "JmpZ"}

\* isFPassStar(op)
IsFPassStar(op) == op = "FPassC"

(***************************************************************************)
(* RegionDesc::Block                                                       *)
(***************************************************************************)
\* Block(func, start, 0)
NewBlockAt(start) ==
  [start |-> start, length |-> 0, typePreds |-> <<>>, byRefs |-> <<>>,
   refPreds |-> <<>>]

\* SrcKey::advanced(unit): the position of the next instruction in unit u.
Advanced(u, o) == o + InstrLen(u[o].op)

\* The position reached by stepping i times from the block's start.
RECURSIVE KeyAt(_, _, _)
KeyAt(u, b, i) == IF i = 0 THEN b.start ELSE Advanced(u, KeyAt(u, b, i - 1))

\* keysInRange once the checker's walk is over.
KeysInRange(u, b) == {KeyAt(u, b, i) : i \in 0..(b.length - 1)}

\* The number of entries of a sorted mapping whose key is <= k.
RECURSIVE UpperBound(_, _)
UpperBound(m, k) ==
  IF m = <<>> \/ m[1].sk > k THEN 0 ELSE 1 + UpperBound(Tail(m), k)

\* insert into a multimap ordered by key: after the entries of an equal key.
MultimapInsert(m, k, v) ==
  LET n == UpperBound(m, k)
  IN SubSeq(m, 1, n) \o <<[sk |-> k, val |-> v]>> \o SubSeq(m, n + 1, Len(m))

HasKey(m, k) == \E i \in 1..Len(m) : m[i].sk = k

\* insert into a map of unique keys: no effect when the key is present.
MapInsert(m, k, v) == IF HasKey(m, k) THEN m ELSE MultimapInsert(m, k, v)

\* pred.type.subtypeOf(Type::Gen | Type::Cls)
TypeInGenOrCls(type) == type \in {"Int", "Str", "Obj", "Cls"}

\* The checker's walk: with a block of length n it reads the instruction at
\* index i - 1 for every i in 1..n-1 other than n-1.
SingleEntrySingleExitChecked(u, b) ==
  \A i \in 1..(b.length - 1) :
    i # b.length - 1 =>
      /\ ~IsTF(u[KeyAt(u, b, i - 1)].op)
      /\ ~InstrIsNonCallControlFlow(u[KeyAt(u, b, i - 1)].op)

\* rangeCheck(type, sk)
RangeCheck(u, b, k) == k \in KeysInRange(u, b)

\* The check of a type prediction's location.
LocationCheck(loc) ==
  CASE loc.tag = "Local" -> Uint32Less(loc.id, NumLocals)
    [] loc.tag = "Stack" -> TRUE

\* The early return of checkInvariants.
CheckSkipped(b) == ~debug \/ b.length = 0

\* RegionDesc::Block::checkInvariants on a block of unit u: TRUE when it
\* returns, FALSE when an assertion fails.
CheckInvariants(u, b) ==
  IF CheckSkipped(b) THEN TRUE
  ELSE /\ SingleEntrySingleExitChecked(u, b)
       /\ \A i \in 1..Len(b.typePreds) :
            /\ RangeCheck(u, b, b.typePreds[i].sk)
            /\ LocationCheck(b.typePreds[i].val.location)
       /\ \A i \in 1..Len(b.byRefs) : RangeCheck(u, b, b.byRefs[i].sk)
       /\ \A i \in 1..Len(b.refPreds) : RangeCheck(u, b, b.refPreds[i].sk)

\* The result of a mutator: the block it leaves and whether it returned
\* (ok) or failed an assertion.
Result(b, ok) == [blk |-> b, ok |-> ok]

\* RegionDesc::Block::addInstruction
AddInstruction(b) == [b EXCEPT !.length = @ + 1]

\* RegionDesc::Block::addPredicted
AddPredicted(u, b, k, pred) ==
  IF debug /\ ~TypeInGenOrCls(pred.type) THEN Result(b, FALSE)
  ELSE LET nb == [b EXCEPT !.typePreds = MultimapInsert(@, k, pred)]
       IN Result(nb, CheckInvariants(u, nb))

\* A bug: setParamByRef without its assertion that the position is new.
SetParamByRefUnasserted(u, b, k, byRef) ==
  LET nb == [b EXCEPT !.byRefs = MapInsert(@, k, byRef)]
  IN Result(nb, CheckInvariants(u, nb))

\* RegionDesc::Block::setParamByRef
SetParamByRef(u, b, k, byRef) ==
  IF debug /\ HasKey(b.byRefs, k) THEN Result(b, FALSE)
  ELSE LET nb == [b EXCEPT !.byRefs = MapInsert(@, k, byRef)]
       IN Result(nb, CheckInvariants(u, nb))

\* RegionDesc::Block::addReffinessPred
AddReffinessPred(u, b, k, pred) ==
  LET nb == [b EXCEPT !.refPreds = MultimapInsert(@, k, pred)]
  IN Result(nb, CheckInvariants(u, nb))

(***************************************************************************)
(* The tracelet handed to createRegion.                                    *)
(***************************************************************************)
\* tlet.m_sk
StartOffsets == {10}

\* Branch displacements of a Jmp decoded at offset o of a tracelet entered at
\* offset s: forward past two skipped bytes, to itself and back to the
\* tracelet's entry.
JmpDisps(o, s) == {7, 0, s - o}

\* What the bytes at offset o may decode to.
Decodable(o, s) ==
  {[op |-> "Nop", imm |-> 0], [op |-> "FPassC", imm |-> 0],
   [op |-> "JmpZ", imm |-> 5]}
    \cup {[op |-> "Jmp", imm |-> d] : d \in JmpDisps(o, s)}

\* unit->at(o): the instruction at offset o, fixed once decoded.
InstrAt(u, o, s) == IF o \in DOMAIN u THEN {u[o]} ELSE Decodable(o, s)

\* The unit with the instruction at offset o decoded.
Decode(u, o, ins) == [x \in DOMAIN u \cup {o} |-> IF x = o THEN ins ELSE u[x]]

\* tlet.m_dependencies in iteration order: the key's space and offset, and
\* of the DynLocation its runtime type and whether that type is vague.
DepPool ==
  << [space |-> "Stack", offset |-> -1, vague |-> FALSE, rtt |-> "KindOfInt64"],
     [space |-> "Stack", offset |-> 0, vague |-> FALSE, rtt |-> "KindOfString"],
     [space |-> "Stack", offset |-> -2, vague |-> TRUE, rtt |-> "KindOfAny"],
     [space |-> "Local", offset |-> 1, vague |-> FALSE, rtt |-> "KindOfInt64"],
     [space |-> "This", offset |-> 0, vague |-> FALSE, rtt |-> "KindOfObject"] >>

\* tlet.m_refDeps.m_arMap in key order: the frame offset, mask and values.
RefDepPool ==
  << [arSpOffset |-> 3, mask |-> <<TRUE>>, vals |-> <<FALSE>>],
     [arSpOffset |-> 7, mask |-> <<TRUE, TRUE>>, vals |-> <<TRUE, FALSE>>] >>

\* Type::fromRuntimeType
FromRuntimeType(rtt) ==
  CASE rtt = "KindOfInt64" -> "Int"
    [] rtt = "KindOfString" -> "Str"
    [] rtt = "KindOfObject" -> "Obj"
    [] OTHER -> "Gen"

\* A bug: a dependency of vague type is lifted like any other.
DepSkippedThisOnly(dep) == dep.space = "This"

\* dep.second->rtt.isVagueValue() || dep.second->location.isThis()
DepSkipped(dep) == dep.vague \/ dep.space = "This"

(***************************************************************************)
(* createRegion                                                            *)
(***************************************************************************)
\* The by-ref flag recorded for an instruction.
ByRefFlag(ni) == IF ni.preppedByRef THEN "Yes" ELSE "No"

\* A bug: an FPass* instruction is flagged although it is a no-op.
RecordsByRefNoOpToo(ni) == IsFPassStar(ni.op)

\* !ni->noOp && isFPassStar(ni->op())
RecordsByRef(ni) == ~ni.noOp /\ IsFPassStar(ni.op)

\* A bug: every Jmp, the final one included, ends the block.
TracedThroughJmpFinalToo(ni) == ni.op = "Jmp"

\* ni->op() == OpJmp && ni->next
TracedThroughJmp(ni) == ni.op = "Jmp" /\ ni.hasNext

\* ni->offset() + ni->imm[0].u_BA
JmpDest(ni) == ni.offset + ni.imm

\* A bug: a Jmp to itself passes the assertion.
ForwardJmpOrSelf(dest, o) == dest >= o

\* A bug: the target of a traced-through Jmp is not asserted on.
ForwardJmpUnasserted(dest, o) == TRUE

\* assert(dest > sk.offset())
ForwardJmp(dest, o) == dest > o

\* The current block after addInstruction and the by-ref flag of ni.
AppendNI(u, b, o, ni) ==
  IF RecordsByRef(ni)
  THEN SetParamByRef(u, AddInstruction(b), o, ByRefFlag(ni))
  ELSE Result(AddInstruction(b), TRUE)

\* A bug: curBlock is never moved to the block newBlock() pushed.
WithCurBlockStuck(r, b) == [r EXCEPT ![1] = b]

\* The blocks with the last one replaced.
WithCurBlock(r, b) == [r EXCEPT ![Len(r)] = b]

\* The blocks with the first one replaced.
WithFrontBlock(r, b) == [r EXCEPT ![1] = b]

\* A bug: a stack dependency at tracer offset o is lifted to Stack{-o}.
LiftedLocationOffByOne(dep) ==
  CASE dep.space = "Stack" ->
         [tag |-> "Stack", offset |-> ToUint32(-dep.offset)]
    [] dep.space = "Local" ->
         [tag |-> "Local", id |-> ToUint32(dep.offset)]

\* The model's Location of a dependency's key.
LiftedLocation(dep) ==
  CASE dep.space = "Stack" ->
         [tag |-> "Stack", offset |-> ToUint32(-dep.offset - 1)]
    [] dep.space = "Local" ->
         [tag |-> "Local", id |-> ToUint32(dep.offset)]

\* A bug: the predictions of one position are kept in no particular order,
\* so a round may leave the new one at any place among them.
LiftDependencyAnyOrder(u, b, s, dep) ==
  IF DepSkipped(dep) THEN {Result(b, TRUE)}
  ELSE {Result([b EXCEPT !.typePreds =
                  SubSeq(@, 1, n)
                    \o <<[sk |-> s,
                          val |-> [location |-> LiftedLocation(dep),
                                   type |-> FromRuntimeType(dep.rtt)]]>>
                    \o SubSeq(@, n + 1, Len(@))], TRUE) :
          n \in 0..Len(b.typePreds)}

\* One round of the loop over tlet.m_dependencies: the results the front
\* block may be left with.  not_reached() is an assertion in the debug build
\* and undefined in the other.
LiftDependency(u, b, s, dep) ==
  IF DepSkipped(dep) THEN {Result(b, TRUE)}
  ELSE IF dep.space \in {"Stack", "Local"}
  THEN {AddPredicted(u, b, s, [location |-> LiftedLocation(dep),
                               type |-> FromRuntimeType(dep.rtt)])}
  ELSE IF debug THEN {Result(b, FALSE)}
  ELSE {Result(b, FALSE), Result(b, TRUE)}

\* A bug: the predicate is built with the mask and the values exchanged.
LiftRefDepSwapped(u, b, s, dep) ==
  AddReffinessPred(u, b, s, [mask |-> dep.vals, vals |-> dep.mask,
                             arSpOffset |-> dep.arSpOffset])

\* One round of the loop over tlet.m_refDeps.m_arMap.
LiftRefDep(u, b, s, dep) ==
  AddReffinessPred(u, b, s, [mask |-> dep.mask, vals |-> dep.vals,
                             arSpOffset |-> dep.arSpOffset])

\* A bug: the lifted guards are keyed at the builder's running position.
GuardKeyRunning(s, cur) == cur

\* The key of the lifted guards: tlet.m_sk, not the running sk.
GuardKey(s, cur) == s

\* The last element of a sequence of pool indices, 0 when it is empty.
LastIndex(q) == IF q = <<>> THEN 0 ELSE q[Len(q)]

\* An assertion failed: the process aborts.
Abort(r, by) ==
  /\ pc' = "done"
  /\ outcome' = "fatal"
  /\ raised' = by
  /\ region' = r

\* A bug: no catch clause, the exception leaves selectRegion.
Uncaught(r) ==
  /\ pc' = "done"
  /\ outcome' = "propagated"
  /\ raised' = "exception"
  /\ region' = r

\* The strategy threw: selectRegion's catch returns a null region.
Caught(r) ==
  /\ pc' = "done"
  /\ outcome' = "none"
  /\ raised' = "exception"
  /\ region' = r

\* One round of the loop over tlet.m_instrStream.
Instr ==
  /\ pc = "loop"
  /\ \E ins \in InstrAt(unit, sk, startSk), noOp \in BOOLEAN,
        byRef \in BOOLEAN, hasNext \in BOOLEAN, allocFails \in BOOLEAN :
       LET ni == [offset |-> sk, op |-> ins.op, imm |-> ins.imm,
                  noOp |-> noOp, preppedByRef |-> byRef, hasNext |-> hasNext]
           u == Decode(unit, sk, ins)
           r == AppendNI(u, region[Len(region)], sk, ni)
           reg == WithCurBlock(region, r.blk)
       IN /\ IsFPassStar(ins.op) \/ (~noOp /\ ~byRef)
          /\ noOp => ~byRef
          /\ hasNext => Len(trace) + 1 < MaxTrace
          /\ allocFails => TracedThroughJmp(ni)
          /\ unit' = u
          /\ trace' = Append(trace, ni)
          /\ IF ~r.ok
             THEN Abort(reg, "fatal") /\ sk' = sk
             ELSE IF TracedThroughJmp(ni)
             THEN IF debug /\ ~ForwardJmp(JmpDest(ni), sk)
                  THEN Abort(reg, "fatal") /\ sk' = sk
                  ELSE /\ sk' = JmpDest(ni)
                       /\ IF allocFails
                          THEN Caught(reg)
                          ELSE /\ region' = Append(reg, NewBlockAt(JmpDest(ni)))
                               /\ pc' = IF hasNext THEN "loop" ELSE "deps"
                               /\ UNCHANGED <<outcome, raised>>
             ELSE /\ sk' = Advanced(u, sk)
                  /\ region' = reg
                  /\ pc' = IF hasNext THEN "loop" ELSE "deps"
                  /\ UNCHANGED <<outcome, raised>>
  /\ UNCHANGED <<debug, config, hasTrace, invoked, startSk, deps, refDeps, call>>

\* One round of the loop over tlet.m_dependencies.
Dependency ==
  /\ pc = "deps"
  /\ Len(deps) < MaxDeps
  /\ \E i \in (LastIndex(deps) + 1)..Len(DepPool) :
       \E r \in LiftDependency(unit, region[1], GuardKey(startSk, sk),
                               DepPool[i]) :
         /\ deps' = Append(deps, i)
         /\ IF r.ok
            THEN /\ region' = WithFrontBlock(region, r.blk)
                 /\ UNCHANGED <<pc, outcome, raised>>
            ELSE Abort(WithFrontBlock(region, r.blk), "fatal")
  /\ UNCHANGED <<debug, config, hasTrace, invoked, unit, trace, sk, startSk,
                 refDeps, call>>

\* The loop over tlet.m_dependencies ends.
DependenciesDone ==
  /\ pc = "deps"
  /\ pc' = "refdeps"
  /\ UNCHANGED <<debug, config, hasTrace, outcome, invoked, raised, unit,
                 trace, sk, startSk, region, deps, refDeps, call>>

\* One round of the loop over tlet.m_refDeps.m_arMap.
RefDep ==
  /\ pc = "refdeps"
  /\ \E i \in (LastIndex(refDeps) + 1)..Len(RefDepPool) :
       LET r == LiftRefDep(unit, region[1], GuardKey(startSk, sk),
                           RefDepPool[i])
       IN /\ refDeps' = Append(refDeps, i)
          /\ IF r.ok
             THEN /\ region' = WithFrontBlock(region, r.blk)
                  /\ UNCHANGED <<pc, outcome, raised>>
             ELSE Abort(WithFrontBlock(region, r.blk), "fatal")
  /\ UNCHANGED <<debug, config, hasTrace, invoked, unit, trace, sk, startSk,
                 deps, call>>

(***************************************************************************)
(* The renderings.  A text is the sequence of the pieces the code          *)
(* concatenates, numbers left as numbers.                                  *)
(***************************************************************************)
\* show(RegionDesc::Location)
ShowLocation(l) ==
  CASE l.tag = "Local" -> <<"Local{", l.id, "}">>
    [] l.tag = "Stack" -> <<"Stack{", l.offset, "}">>

\* show(RegionDesc::TypePred)
ShowTypePred(ta) == <<ShowLocation(ta.location), " :: ", ta.type>>

\* out << (bit ? '1' : '0') for every bit of a vector
ShowBits(bits) == [j \in 1..Len(bits) |-> IF bits[j] THEN "1" ELSE "0"]

\* show(const RegionDesc::ReffinessPred&)
ShowReffinessPred(pred) ==
  <<"offset: ", pred.arSpOffset, " mask: ", ShowBits(pred.mask),
    " vals: ", ShowBits(pred.vals)>>

\* show(RegionDesc::ParamByRef)
ShowParamByRef(byRef) ==
  CASE byRef = "Yes" -> "by value"
    [] byRef = "No" -> "by reference"

\* The values of the entries of mapping m at key k, in the mapping's order
\* (what a MapWalker yields while hasNext(k)).
EntriesAt(m, k) ==
  LET q == SelectSeq(m, LAMBDA e : e.sk = k)
  IN [j \in 1..Len(q) |-> q[j].val]

\* The lines show(const RegionDesc::Block&) renders for the instruction at
\* position k of block b.
ShowInstr(u, b, k) ==
  [predict |-> [j \in 1..Len(EntriesAt(b.typePreds, k)) |->
                  <<"  predict: ", ShowTypePred(EntriesAt(b.typePreds, k)[j])>>],
   reffiness |-> [j \in 1..Len(EntriesAt(b.refPreds, k)) |->
                    <<"  predict reffiness: ",
                      ShowReffinessPred(EntriesAt(b.refPreds, k)[j])>>],
   offset |-> k,
   instr |-> u[k].op,
   byRef |-> IF HasKey(b.byRefs, k)
             THEN <<" (passed ", ShowParamByRef(EntriesAt(b.byRefs, k)[1]), ")">>
             ELSE <<>>]

\* show(const RegionDesc::Block&)
ShowBlock(u, b) ==
  [header |-> <<"Block ", "@", b.start, " length ", b.length>>,
   lines |-> [i \in 1..b.length |-> ShowInstr(u, b, KeyAt(u, b, i - 1))]]

\* show(const RegionDesc&)
ShowRegion(u, r) ==
  [header |-> <<"Region (", Len(r), " blocks):">>,
   blocks |-> [i \in 1..Len(r) |-> ShowBlock(u, r[i])]]

\* createRegion renders its region for the trace log and returns it, and
\* selectRegion returns it.
ReturnRegion ==
  /\ pc = "refdeps"
  /\ pc' = "done"
  /\ outcome' = "region"
  /\ call' = [op |-> "show", text |-> ShowRegion(unit, region)]
  /\ UNCHANGED <<debug, config, hasTrace, invoked, raised, unit, trace, sk,
                 startSk, region, deps, refDeps>>

(***************************************************************************)
(* selectRegion                                                            *)
(***************************************************************************)
\* RuntimeOption::EvalJitRegionSelector: the four strings regionMode knows,
\* one it does not and one that differs from a known one in case only.
Configs == {"", "onebc", "method", "tracelet", "hottrace", "Tracelet"}

\* A bug: regionMode without its abort().
RegionModeLenient(s) ==
  CASE s = "" -> "None"
    [] s = "onebc" -> "OneBC"
    [] s = "method" -> "Method"
    [] s = "tracelet" -> "Tracelet"
    [] OTHER -> "None"

\* regionMode(): "Abort" stands for the debug build's abort().
RegionMode(s) ==
  CASE s = "" -> "None"
    [] s = "onebc" -> "OneBC"
    [] s = "method" -> "Method"
    [] s = "tracelet" -> "Tracelet"
    [] OTHER -> IF debug THEN "Abort" ELSE "None"

\* What regionOneBC and regionMethod may do: return a region, return a null
\* region, throw.
StrategyResults == {"region", "null", "exception"}

\* A bug: the two cases of the switch call each other's strategy.
ExternalStrategySwapped(mode) ==
  CASE mode = "OneBC" -> "regionMethod"
    [] mode = "Method" -> "regionOneBC"

\* The strategy of a mode that delegates to an external one.
ExternalStrategy(mode) ==
  CASE mode = "OneBC" -> "regionOneBC"
    [] mode = "Method" -> "regionMethod"

\* What selectRegion returns when the external strategy returned res.
ExternalOutcome(res) == IF res = "region" THEN "region" ELSE "none"

\* A bug: assert(t), which only the debug build checks.
TraceRequiredInDebug(t) == t \/ ~debug

\* always_assert(t) in the Tracelet case: TRUE when it passes.
TraceRequired(t) == t

\* regionMode() aborts on an unknown mode in the debug build.
SelectAbort ==
  /\ RegionMode(config) = "Abort"
  /\ pc' = "done"
  /\ outcome' = "fatal"
  /\ UNCHANGED <<invoked, raised, unit, trace, sk, startSk, region>>

\* case RegionMode::None
SelectNone ==
  /\ RegionMode(config) = "None"
  /\ pc' = "done"
  /\ outcome' = "none"
  /\ UNCHANGED <<invoked, raised, unit, trace, sk, startSk, region>>

\* case RegionMode::OneBC, case RegionMode::Method
SelectExternal ==
  /\ RegionMode(config) \in {"OneBC", "Method"}
  /\ invoked' = Append(invoked, ExternalStrategy(RegionMode(config)))
  /\ \E res \in StrategyResults :
       IF res = "exception"
       THEN Caught(region)
       ELSE /\ pc' = "done"
            /\ outcome' = ExternalOutcome(res)
            /\ UNCHANGED <<raised, region>>
  /\ UNCHANGED <<unit, trace, sk, startSk>>

\* case RegionMode::Tracelet
SelectTracelet ==
  /\ RegionMode(config) = "Tracelet"
  /\ IF ~TraceRequired(hasTrace)
     THEN /\ pc' = "done"
          /\ outcome' = "fatal"
          /\ UNCHANGED <<invoked, raised, unit, trace, sk, startSk, region>>
     ELSE /\ invoked' = Append(invoked, "createRegion")
          /\ \E s \in StartOffsets, allocFails \in BOOLEAN :
               /\ startSk' = s
               /\ sk' = s
               /\ IF allocFails
                  THEN Caught(<<>>)
                  ELSE /\ region' = <<NewBlockAt(s)>>
                       /\ pc' = "loop"
                       /\ UNCHANGED <<outcome, raised>>
          /\ UNCHANGED <<unit, trace>>

\* selectRegion(context, t), up to the first round of createRegion's loop.
SelectRegion ==
  /\ pc = "start"
  /\ \/ SelectAbort
     \/ SelectNone
     \/ SelectExternal
     \/ SelectTracelet
  /\ UNCHANGED <<debug, config, hasTrace, deps, refDeps, call>>

NoCall == [op |-> "none"]

Init ==
  /\ debug \in BOOLEAN
  /\ config \in Configs
  /\ hasTrace \in BOOLEAN
  /\ pc = "start"
  /\ outcome = "pending"
  /\ invoked = <<>>
  /\ raised = "no"
  /\ unit = <<>>
  /\ trace = <<>>
  /\ sk = 0
  /\ startSk = 0
  /\ region = <<>>
  /\ deps = <<>>
  /\ refDeps = <<>>
  /\ call = NoCall

Next ==
  \/ SelectRegion
  \/ Instr
  \/ Dependency
  \/ DependenciesDone
  \/ RefDep
  \/ ReturnRegion

Spec == Init /\ [][Next]_vars

(***************************************************************************)
(* SpecBlock: one Block and calls of its mutators.                         *)
(***************************************************************************)
\* The instructions the block may run over (a branch's displacement is not
\* read by the block).
BlockInstrs == {[op |-> o, imm |-> 0] : o \in {"Nop", "JmpZ", "Jmp"}}

\* The positions handed to the mutators: the byte before the block, each of
\* its instructions and the position after the last one.
Positions(u, b) == {b.start - 1} \cup {KeyAt(u, b, i) : i \in 0..b.length}

\* The predictions handed to addPredicted.
Locations ==
  {[tag |-> "Local", id |-> ToUint32(0)],
   [tag |-> "Local", id |-> ToUint32(NumLocals)],
   [tag |-> "Stack", offset |-> ToUint32(0)],
   [tag |-> "Stack", offset |-> ToUint32(-1)]}

TypePreds ==
  {[location |-> l, type |-> "Int"] : l \in Locations}
    \cup {[location |-> [tag |-> "Stack", offset |-> ToUint32(0)],
           type |-> "RetAddr"]}

ByRefFlags == {"Yes", "No"}

ReffinessPreds == {[mask |-> <<TRUE>>, vals |-> <<FALSE>>, arSpOffset |-> 3]}

\* The entries of the three mappings together.
Guards(b) == Len(b.typePreds) + Len(b.byRefs) + Len(b.refPreds)

\* The caller sees the mutator return or the process abort.
Called(c, r) ==
  /\ call' = c
  /\ region' = <<r.blk>>
  /\ IF r.ok
     THEN UNCHANGED <<pc, outcome>>
     ELSE pc' = "done" /\ outcome' = "fatal"

\* b.addInstruction(), the block running over one more instruction of its unit.
BlockAddInstruction ==
  /\ pc = "block"
  /\ region[1].length < MaxBlockLen
  /\ \E ins \in BlockInstrs :
       unit' = Decode(unit, KeyAt(unit, region[1], region[1].length), ins)
  /\ Called([op |-> "addInstruction"], Result(AddInstruction(region[1]), TRUE))
  /\ UNCHANGED <<debug, config, hasTrace, invoked, raised, trace, sk, startSk,
                 deps, refDeps>>

\* b.addPredicted(k, pred)
BlockAddPredicted ==
  /\ pc = "block"
  /\ Guards(region[1]) < MaxGuards
  /\ \E k \in Positions(unit, region[1]), pred \in TypePreds :
       Called([op |-> "addPredicted", sk |-> k, pred |-> pred,
               wasOk |-> CheckInvariants(unit, region[1])],
              AddPredicted(unit, region[1], k, pred))
  /\ UNCHANGED <<debug, config, hasTrace, invoked, raised, unit, trace, sk,
                 startSk, deps, refDeps>>

\* b.setParamByRef(k, byRef); a position that holds a flag may be flagged
\* again whatever the number of entries, as that adds none.
BlockSetParamByRef ==
  /\ pc = "block"
  /\ \E k \in Positions(unit, region[1]), byRef \in ByRefFlags :
       /\ Guards(region[1]) < MaxGuards \/ HasKey(region[1].byRefs, k)
       /\ Called([op |-> "setParamByRef", sk |-> k, byRef |-> byRef,
                  before |-> region[1].byRefs],
                 SetParamByRef(unit, region[1], k, byRef))
  /\ UNCHANGED <<debug, config, hasTrace, invoked, raised, unit, trace, sk,
                 startSk, deps, refDeps>>

\* b.addReffinessPred(k, pred)
BlockAddReffinessPred ==
  /\ pc = "block"
  /\ Guards(region[1]) < MaxGuards
  /\ \E k \in Positions(unit, region[1]), pred \in ReffinessPreds :
       Called([op |-> "addReffinessPred", sk |-> k, pred |-> pred],
              AddReffinessPred(unit, region[1], k, pred))
  /\ UNCHANGED <<debug, config, hasTrace, invoked, raised, unit, trace, sk,
                 startSk, deps, refDeps>>

InitBlock ==
  /\ debug \in BOOLEAN
  /\ config = ""
  /\ hasTrace = FALSE
  /\ pc = "block"
  /\ outcome = "pending"
  /\ invoked = <<>>
  /\ raised = "no"
  /\ unit = <<>>
  /\ trace = <<>>
  /\ startSk \in StartOffsets
  /\ sk = startSk
  /\ region = <<NewBlockAt(startSk)>>
  /\ deps = <<>>
  /\ refDeps = <<>>
  /\ call = NoCall

NextBlock ==
  \/ BlockAddInstruction
  \/ BlockAddPredicted
  \/ BlockSetParamByRef
  \/ BlockAddReffinessPred

SpecBlock == InitBlock /\ [][NextBlock]_vars

(***************************************************************************)
(* What the claims speak of.                                               *)
(***************************************************************************)
\* createRegion ran and selectRegion returned its region.
Returned == pc = "done" /\ outcome = "region" /\ invoked = <<"createRegion">>

\* createRegion is past its loop over the instruction stream and has not
\* failed.
Walked == pc \in {"deps", "refdeps"} \/ Returned

\* The rounds of the instruction loop that met a Jmp with a successor.
NonFinalJmps == {i \in 1..Len(trace) : trace[i].op = "Jmp" /\ trace[i].hasNext}

\* Every Jmp with a successor jumps forward.
AllJmpsForward ==
  \A i \in NonFinalJmps : trace[i].offset + trace[i].imm > trace[i].offset

\* The number of trace instructions in the first i blocks of the region.
RECURSIVE EndIndex(_)
EndIndex(i) == IF i = 0 THEN 0 ELSE EndIndex(i - 1) + region[i].length

\* The offset of the last instruction of a block.
LastOffset(b) == KeyAt(unit, b, b.length - 1)

(***************************************************************************)
(* C1: once createRegion has walked a trace whose k non-final Jmps all     *)
(* jump forward, the region has k + 1 blocks, each block but the last ends *)
(* with one of those Jmps, and the next block starts at that Jmp's offset  *)
(* plus its displacement; a final Jmp opens no block.                      *)
(***************************************************************************)
C1_TraceSplitting ==
  (Walked /\ AllJmpsForward) =>
    /\ Len(region) = Cardinality(NonFinalJmps) + 1
    /\ \A i \in 1..(Len(region) - 1) :
         /\ region[i].length >= 1
         /\ EndIndex(i) \in NonFinalJmps
         /\ trace[EndIndex(i)].offset = LastOffset(region[i])
         /\ region[i + 1].start =
              LastOffset(region[i]) + trace[EndIndex(i)].imm

\* A returned region of two blocks split at a Jmp over skipped bytes, from a
\* trace whose final instruction is a Jmp as well.
C1_Witness ==
  /\ Returned
  /\ AllJmpsForward
  /\ Len(trace) = 3
  /\ Cardinality(NonFinalJmps) = 1
  /\ trace[Len(trace)].op = "Jmp"
  /\ Len(region) = 2
  /\ region[2].start > LastOffset(region[1]) + InstrLen("Jmp")

(***************************************************************************)
(* C2 as stated: whatever error the chosen strategy raises, selectRegion   *)
(* returns "no region".                                                    *)
(***************************************************************************)
C2_AnyErrorBecomesNoRegion == raised # "no" => outcome = "none"

(***************************************************************************)
(* C2, amended: an exception thrown by the chosen strategy is caught and   *)
(* selectRegion returns "no region"; an assertion that fails inside        *)
(* createRegion aborts the process and is not turned into "no region".     *)
(***************************************************************************)
C2_ExceptionBecomesNoRegion ==
  /\ raised = "exception" => (pc = "done" /\ outcome = "none")
  /\ raised = "fatal" => (pc = "done" /\ outcome = "fatal")

\* createRegion threw while it opened its second block.
C2_Witness ==
  /\ raised = "exception"
  /\ invoked = <<"createRegion">>
  /\ Len(trace) >= 1
  /\ outcome = "none"

\* Instruction i (from 0) of block b.
InstrOf(b, i) == unit[KeyAt(unit, b, i)]

\* Invariant 1 of a block: every instruction but the last falls through and
\* is no control-flow instruction other than a call.
SingleEntrySingleExit(b) ==
  \A i \in 0..(b.length - 2) :
    /\ ~IsTF(InstrOf(b, i).op)
    /\ ~InstrIsNonCallControlFlow(InstrOf(b, i).op)

(***************************************************************************)
(* C3 as stated, in the build that runs checkInvariants: every block of a  *)
(* region createRegion returns is single-entry/single-exit.                *)
(***************************************************************************)
C3_BlocksSingleEntrySingleExit ==
  (Returned /\ debug) =>
    \A i \in 1..Len(region) : SingleEntrySingleExit(region[i])

\* The guard-adding mutators of a Block.
GuardMutators == {"addPredicted", "setParamByRef", "addReffinessPred"}

(***************************************************************************)
(* C4 as stated: in the debug build a guard added at a position that is    *)
(* none of the block's instruction positions aborts, whatever the block's  *)
(* length.                                                                 *)
(***************************************************************************)
C4_OutOfRangeIsFatal ==
  (debug /\ call.op \in GuardMutators
         /\ call.sk \notin KeysInRange(unit, region[1]))
    => outcome = "fatal"

\* The dependencies visited that are lifted into type predictions.
LiftedDeps == SelectSeq(deps, LAMBDA i : ~DepPool[i].vague /\ DepPool[i].space # "This")

(***************************************************************************)
(* C5: in a returned region the first block's type predictions are, in     *)
(* order, one per dependency of known type that is not `this`, each keyed  *)
(* at tlet.m_sk with that dependency's space and type; no other block      *)
(* holds a type prediction.                                                *)
(***************************************************************************)
C5_TypePredictionsLifted ==
  Returned =>
    /\ Len(region[1].typePreds) = Len(LiftedDeps)
    /\ \A j \in 1..Len(LiftedDeps) :
         /\ region[1].typePreds[j].sk = startSk
         /\ region[1].typePreds[j].val.location.tag = DepPool[LiftedDeps[j]].space
         /\ region[1].typePreds[j].val.type =
              FromRuntimeType(DepPool[LiftedDeps[j]].rtt)
    /\ \A i \in 2..Len(region) : region[i].typePreds = <<>>

\* A returned region of two blocks from a tracelet with a dependency of
\* known type and one of vague type: one prediction, on the first block.
C5_Witness ==
  /\ Returned
  /\ Len(region) = 2
  /\ Len(deps) = 2
  /\ \E i \in 1..2 : DepPool[deps[i]].vague
  /\ Len(region[1].typePreds) = 1
  /\ region[1].typePreds[1].sk = startSk

(***************************************************************************)
(* C6: in trace-based mode without a trace selectRegion aborts: it calls   *)
(* no strategy, nothing is caught and it never returns "no region".        *)
(***************************************************************************)
C6_MissingTraceIsFatal ==
  (config = "tracelet" /\ ~hasTrace) =>
    /\ invoked = <<>>
    /\ raised = "no"
    /\ outcome \in {"pending", "fatal"}
    /\ pc = "done" => outcome = "fatal"

\* The call was made without a trace in the build without assertions.
C6_Witness ==
  /\ config = "tracelet"
  /\ ~hasTrace
  /\ ~debug
  /\ pc = "done"
  /\ outcome = "fatal"

\* The strategies a configuration string may run.
StrategiesOf(s) ==
  CASE s = "onebc" -> {"regionOneBC"}
    [] s = "method" -> {"regionMethod"}
    [] s = "tracelet" -> {"createRegion"}
    [] OTHER -> {}

(***************************************************************************)
(* C7: selectRegion calls at most one strategy, the one its mode names;    *)
(* with the configuration unset it returns "no region" and calls none; in  *)
(* the two modes that take no trace it neither aborts nor reads a trace,   *)
(* and before the call both results are possible and no other is, with or  *)
(* without a trace.                                                        *)
(***************************************************************************)
C7_OneStrategyPerMode ==
  /\ Len(invoked) <= 1
  /\ \A i \in 1..Len(invoked) : invoked[i] \in StrategiesOf(config)
  /\ (pc = "done" /\ outcome # "fatal" /\ StrategiesOf(config) # {})
       => Len(invoked) = 1
  /\ (config = "" /\ pc = "done") => (outcome = "none" /\ invoked = <<>>)
  /\ config \in {"onebc", "method"} =>
       /\ trace = <<>> /\ region = <<>>
       /\ pc = "done" => outcome \in {"region", "none"}
       /\ pc = "start" =>
            /\ \A o \in {"region", "none"} :
                 ENABLED (SelectRegion /\ outcome' = o)
            /\ ~ENABLED (SelectRegion /\ outcome' \notin {"region", "none"})

\* Whole-method mode called without a trace returned the strategy's region.
C7_Witness ==
  /\ config = "method"
  /\ ~hasTrace
  /\ pc = "done"
  /\ invoked = <<"regionMethod">>
  /\ outcome = "region"

\* The blocks start at the entry and in execution order.
ExecutionOrder ==
  /\ region[1].start = startSk
  /\ \A i \in 1..Len(region) : \A j \in (i + 1)..Len(region) :
       \A n \in 0..(region[i].length - 1) :
         region[j].start > KeyAt(unit, region[i], n)

(***************************************************************************)
(* C8 as stated: every region createRegion returns starts at tlet.m_sk and *)
(* has its blocks in execution order.                                      *)
(***************************************************************************)
C8_ExecutionOrderAlways == Returned => ExecutionOrder

(***************************************************************************)
(* C8, amended: so it is when every non-final Jmp of the trace jumps       *)
(* forward, which the debug build asserts and the other build does not.    *)
(***************************************************************************)
C8_ExecutionOrderForward ==
  /\ (Returned /\ AllJmpsForward) => ExecutionOrder
  /\ (Returned /\ debug) => AllJmpsForward

\* The debug build returned a region of three blocks.
C8_Witness ==
  /\ Returned
  /\ debug
  /\ Len(region) = 3
  /\ region[3].start > region[2].start

(***************************************************************************)
(* C9 as stated: in the debug build addPredicted aborts on Local{id} with  *)
(* id >= the function's local count whatever the block's length, and does  *)
(* not abort on a Stack location of any offset at one of the block's       *)
(* positions (given a type in the domain and a block that passed its check *)
(* before the call).                                                       *)
(***************************************************************************)
C9_LocalBoundStackFree ==
  (debug /\ call.op = "addPredicted") =>
    /\ (call.pred.location.tag = "Local"
          /\ ~Uint32Less(call.pred.location.id, NumLocals))
         => outcome = "fatal"
    /\ (call.pred.location.tag = "Stack"
          /\ call.sk \in KeysInRange(unit, region[1])
          /\ TypeInGenOrCls(call.pred.type)
          /\ call.wasOk)
         => outcome # "fatal"

\* No position holds two by-ref flags.
OneFlagPerPosition(b) ==
  \A i, j \in 1..Len(b.byRefs) : b.byRefs[i].sk = b.byRefs[j].sk => i = j

(***************************************************************************)
(* C10: in the debug build setParamByRef on a position that holds a flag   *)
(* aborts and leaves the mapping as it was, whatever the block's length;   *)
(* a block that has not aborted holds at most one flag per position.       *)
(***************************************************************************)
C10_DuplicateFlagIsFatal ==
  /\ (debug /\ call.op = "setParamByRef" /\ HasKey(call.before, call.sk))
       => (outcome = "fatal" /\ region[1].byRefs = call.before)
  /\ (debug /\ outcome # "fatal") => OneFlagPerPosition(region[1])

\* A block of length 0 was flagged twice at one position.
C10_Witness ==
  /\ debug
  /\ call.op = "setParamByRef"
  /\ HasKey(call.before, call.sk)
  /\ region[1].length = 0
  /\ outcome = "fatal"

\* The reffiness predicate of the fact at index i of the pool.
RefPredOf(i) ==
  [mask |-> RefDepPool[i].mask, vals |-> RefDepPool[i].vals,
   arSpOffset |-> RefDepPool[i].arSpOffset]

(***************************************************************************)
(* C11: in a returned region the first block's reffiness predicates are,   *)
(* in order, one per reffiness fact of the tracelet, each keyed at         *)
(* tlet.m_sk and carrying that fact's mask, values and frame offset; no    *)
(* other block holds a reffiness predicate.                                *)
(***************************************************************************)
C11_ReffinessPredsLifted ==
  Returned =>
    /\ Len(region[1].refPreds) = Len(refDeps)
    /\ \A j \in 1..Len(refDeps) :
         /\ region[1].refPreds[j].sk = startSk
         /\ region[1].refPreds[j].val = RefPredOf(refDeps[j])
    /\ \A i \in 2..Len(region) : region[i].refPreds = <<>>

\* A returned region of two blocks from a tracelet with two reffiness
\* facts: both predicates sit on the first block.
C11_Witness ==
  /\ Returned
  /\ Len(region) = 2
  /\ Len(refDeps) = 2
  /\ Len(region[1].refPreds) = 2
  /\ region[1].refPreds[2].val.arSpOffset = 7

\* The uint32_t a is what the conversion of the int x yields: x itself when
\* x is not negative, and 2^32 + x when it is, which is 2^32 - 1 less
\* -x - 1: each half of a is the complement of that half of -x - 1.
StoresInt(a, x) ==
  IF x >= 0
  THEN /\ a.hi = x \div TwoTo16
       /\ a.lo = x % TwoTo16
  ELSE /\ a.hi = TwoTo16 - 1 - ((-x - 1) \div TwoTo16)
       /\ a.lo = TwoTo16 - 1 - ((-x - 1) % TwoTo16)

(***************************************************************************)
(* C12: while createRegion has not failed, the j-th type prediction of the *)
(* first block has, for the j-th lifted dependency, the location           *)
(* Stack{uint32_t(-o - 1)} when that dependency is in stack space at       *)
(* tracer offset o and Local{uint32_t(i)} when it is in local space at     *)
(* index i.                                                                *)
(***************************************************************************)
C12_LiftedLocations ==
  Walked =>
    /\ Len(region[1].typePreds) = Len(LiftedDeps)
    /\ \A j \in 1..Len(LiftedDeps) :
         LET dep == DepPool[LiftedDeps[j]]
             loc == region[1].typePreds[j].val.location
         IN /\ dep.space = "Stack" =>
                 (loc.tag = "Stack" /\ StoresInt(loc.offset, -dep.offset - 1))
            /\ dep.space = "Local" =>
                 (loc.tag = "Local" /\ StoresInt(loc.id, dep.offset))

\* A returned region whose tracelet depends on the stack slot at tracer
\* offset 0 and on local 1: the first is stored as 2^32 - 1.
C12_Witness ==
  /\ Returned
  /\ Len(LiftedDeps) = 2
  /\ DepPool[LiftedDeps[1]].space = "Stack"
  /\ DepPool[LiftedDeps[1]].offset = 0
  /\ region[1].typePreds[1].val.location =
       [tag |-> "Stack", offset |-> [hi |-> TwoTo16 - 1, lo |-> TwoTo16 - 1]]
  /\ region[1].typePreds[2].val.location =
       [tag |-> "Local", id |-> [hi |-> 0, lo |-> 1]]

\* The last instruction consumed is a Jmp with a successor whose target is
\* not beyond its own offset, and it is the first such Jmp of the trace.
MetNonForwardJmp ==
  /\ trace # <<>>
  /\ Len(trace) \in NonFinalJmps
  /\ JmpDest(trace[Len(trace)]) <= trace[Len(trace)].offset
  /\ \A i \in NonFinalJmps \ {Len(trace)} :
       JmpDest(trace[i]) > trace[i].offset

\* The process aborted on the last instruction consumed: nothing is
\* returned, nothing was caught, and the region under construction has the
\* blocks the earlier non-final Jmps opened and no more.
FatalAtLastInstr ==
  /\ pc = "done"
  /\ outcome = "fatal"
  /\ raised = "fatal"
  /\ Len(region) = Cardinality(NonFinalJmps)

(***************************************************************************)
(* C13 as stated: in either build, a non-final Jmp whose target is not     *)
(* beyond its own offset makes createRegion abort: no region is returned,  *)
(* no further block is created and nothing is turned into "no region".     *)
(***************************************************************************)
C13_NonForwardJmpIsFatal ==
  (~AllJmpsForward /\ invoked = <<"createRegion">>) =>
    (pc = "done" /\ outcome = "fatal")

(***************************************************************************)
(* C13, amended: in the debug build such a Jmp aborts createRegion on the  *)
(* spot, before a block is opened at its target, and selectRegion returns  *)
(* nothing; in the other build the assertion is compiled out and such a    *)
(* Jmp is no failure: the build goes on (or throws when the block cannot   *)
(* be allocated).                                                          *)
(***************************************************************************)
C13_NonForwardJmpIsFatalInDebug ==
  /\ (debug /\ MetNonForwardJmp) => FatalAtLastInstr
  /\ (debug /\ ~AllJmpsForward) => (MetNonForwardJmp /\ FatalAtLastInstr)
  /\ (~debug /\ MetNonForwardJmp) =>
       /\ outcome # "fatal"
       /\ raised \in {"no", "exception"}
       /\ raised = "no" =>
            (Len(region) = Cardinality(NonFinalJmps) + 1
               /\ region[Len(region)].start = JmpDest(trace[Len(trace)]))

\* The debug build aborted on a Jmp back to the tracelet's entry, after a
\* forward Jmp had opened the second block.
C13_Witness ==
  /\ debug
  /\ MetNonForwardJmp
  /\ Len(trace) = 2
  /\ JmpDest(trace[2]) = startSk
  /\ Len(region) = 2
  /\ outcome = "fatal"

\* The configuration strings regionMode compares with.
KnownConfigs == {"", "onebc", "method", "tracelet"}

(***************************************************************************)
(* C14: with a configuration string regionMode does not know, selectRegion *)
(* calls no strategy, builds nothing and catches nothing; it can always    *)
(* take its step, and once it has, the non-debug build has returned "no    *)
(* region", as it does with the configuration unset, and the debug build   *)
(* has aborted.                                                            *)
(***************************************************************************)
C14_UnknownModeIsDisabledOrFatal ==
  config \notin KnownConfigs =>
    /\ invoked = <<>>
    /\ raised = "no"
    /\ trace = <<>> /\ region = <<>>
    /\ pc \in {"start", "done"}
    /\ pc = "start" => ENABLED SelectRegion
    /\ pc = "done" => outcome = (IF debug THEN "fatal" ELSE "none")

\* The non-debug build was called with "Tracelet", which is not "tracelet",
\* and with a trace: it returned "no region".
C14_Witness ==
  /\ config = "Tracelet"
  /\ ~debug
  /\ hasTrace
  /\ pc = "done"
  /\ outcome = "none"
  /\ invoked = <<>>

\* The n-th Jmp with a successor, as an index of the trace.
NthJmp(n) ==
  CHOOSE j \in NonFinalJmps : Cardinality({x \in NonFinalJmps : x <= j}) = n

\* The trace indices of the first and the last instruction of block i when
\* blocks end at the Jmps with a successor and nowhere else.
FirstIndexOf(i) == IF i = 1 THEN 1 ELSE NthJmp(i - 1) + 1
LastIndexOf(i) ==
  IF i = Cardinality(NonFinalJmps) + 1 THEN Len(trace) ELSE NthJmp(i)

\* The by-ref flags of the trace instructions first..last, in trace order.
FlagsOf(first, last) ==
  LET q == SelectSeq(SubSeq(trace, first, last), RecordsByRef)
  IN [j \in 1..Len(q) |-> [sk |-> q[j].offset, val |-> ByRefFlag(q[j])]]

\* The type predictions of the dependencies visited, in visiting order.
PredictionsOf(ds) ==
  LET q == SelectSeq(ds, LAMBDA i : ~DepSkipped(DepPool[i]))
  IN [j \in 1..Len(q) |->
        [sk |-> startSk,
         val |-> [location |-> LiftedLocation(DepPool[q[j]]),
                  type |-> FromRuntimeType(DepPool[q[j]].rtt)]]]

\* The region as a function of createRegion's inputs: the tracelet's
\* instructions, its dependency facts and its reffiness facts.
RegionOf(ds, rs) ==
  [i \in 1..(Cardinality(NonFinalJmps) + 1) |->
     [start |-> trace[FirstIndexOf(i)].offset,
      length |-> LastIndexOf(i) - FirstIndexOf(i) + 1,
      typePreds |-> IF i = 1 THEN PredictionsOf(ds) ELSE <<>>,
      byRefs |-> FlagsOf(FirstIndexOf(i), LastIndexOf(i)),
      refPreds |-> IF i = 1
                   THEN [j \in 1..Len(rs) |->
                           [sk |-> startSk, val |-> RefPredOf(rs[j])]]
                   ELSE <<>>]]

(***************************************************************************)
(* C15: the region createRegion returns is a function of the tracelet's    *)
(* instructions, dependency facts and reffiness facts (each in the order   *)
(* the tracelet yields them), whatever the build and whatever else the run *)
(* chose: two runs on the same inputs that return a region return equal    *)
(* regions, block for block and entry for entry.                           *)
(***************************************************************************)
C15_RegionIsFunctionOfInputs == Returned => region = RegionOf(deps, refDeps)

\* A returned region of two blocks with a by-ref flag, two type predictions
\* and two reffiness predictions, all three mappings of the first block
\* filled.
C15_Witness ==
  /\ Returned
  /\ Len(region) = 2
  /\ Len(region[1].typePreds) = 2
  /\ Len(region[1].refPreds) = 2
  /\ Len(region[1].byRefs) = 1
  /\ region = RegionOf(deps, refDeps)

(***************************************************************************)
(* C16 as stated: in the debug build, once a guard-adding mutator has run  *)
(* (each ends with checkInvariants) on a block of length >= 2 in which an  *)
(* instruction other than the last, the second-to-last included, does not  *)
(* fall through or is control flow other than a call, the process has      *)
(* aborted.                                                                *)
(***************************************************************************)
C16_MidBlockControlFlowIsFatal ==
  (debug /\ call.op \in GuardMutators
         /\ region[1].length >= 2
         /\ ~SingleEntrySingleExit(region[1]))
    => outcome = "fatal"

\* The trace indices of the instructions counted in block i of the region.
TraceIndicesOf(i) == (EndIndex(i - 1) + 1)..EndIndex(i)

(***************************************************************************)
(* C17: in a returned region, a block holds a by-ref flag at the position  *)
(* of one of its instructions exactly when that instruction is an FPass*   *)
(* that is no no-op, the flag is Yes exactly when the instruction's        *)
(* preppedByRef is set, and a block holds no flag at any other position    *)
(* nor two flags at one position.                                          *)
(***************************************************************************)
C17_ByRefFlagsFollowTrace ==
  Returned =>
    \A i \in 1..Len(region) :
      LET flags == region[i].byRefs
      IN /\ \A t \in TraceIndicesOf(i) :
              /\ HasKey(flags, trace[t].offset)
                   <=> (IsFPassStar(trace[t].op) /\ ~trace[t].noOp)
              /\ \A e \in 1..Len(flags) :
                   flags[e].sk = trace[t].offset =>
                     /\ flags[e].val \in {"Yes", "No"}
                     /\ flags[e].val = "Yes" <=> trace[t].preppedByRef
         /\ \A e \in 1..Len(flags) :
              \E t \in TraceIndicesOf(i) : trace[t].offset = flags[e].sk
         /\ OneFlagPerPosition(region[i])

\* A returned region of two blocks: a no-op FPassC in the first, which
\* holds no flag, and an FPassC prepped by reference in the second, which
\* holds its flag.
C17_Witness ==
  /\ Returned
  /\ Len(region) = 2
  /\ trace[1].op = "FPassC" /\ trace[1].noOp
  /\ region[1].byRefs = <<>>
  /\ trace[3].op = "FPassC" /\ trace[3].preppedByRef
  /\ region[2].byRefs = <<[sk |-> region[2].start, val |-> "Yes"]>>

\* Every key of the three mappings of block b of unit u is one of the
\* positions reached by stepping from b's start fewer than b.length times.
GuardsInRange(u, b) ==
  /\ \A e \in 1..Len(b.typePreds) : b.typePreds[e].sk \in KeysInRange(u, b)
  /\ \A e \in 1..Len(b.byRefs) : b.byRefs[e].sk \in KeysInRange(u, b)
  /\ \A e \in 1..Len(b.refPreds) : b.refPreds[e].sk \in KeysInRange(u, b)

(***************************************************************************)
(* C18: at every point of createRegion, in either build, the keys of the   *)
(* three mappings of every block of the region are instruction positions   *)
(* of that block: so it is after each round of the instruction loop        *)
(* (addInstruction and setParamByRef), after the addInstruction of the     *)
(* round to come whatever instruction it meets, and after each guard       *)
(* lifted onto the first block, however many blocks the region has.        *)
(***************************************************************************)
C18_GuardsInRange ==
  /\ \A i \in 1..Len(region) : GuardsInRange(unit, region[i])
  /\ pc = "loop" =>
       \A ins \in InstrAt(unit, sk, startSk) :
         GuardsInRange(Decode(unit, sk, ins),
                       AddInstruction(region[Len(region)]))

\* A returned region of two blocks: a type prediction and a reffiness
\* predicate lifted onto the first, a by-ref flag in the second.
C18_Witness ==
  /\ Returned
  /\ Len(region) = 2
  /\ Len(region[1].typePreds) = 1
  /\ Len(region[1].refPreds) = 1
  /\ Len(region[2].byRefs) = 1
  /\ region[2].byRefs[1].sk = region[2].start
  /\ region[2].start # startSk

\* Trace instruction t is counted in block i: t is among the block's trace
\* indices and the block reaches the instruction's offset at that step.
CountedIn(t, i) ==
  /\ t \in TraceIndicesOf(i)
  /\ KeyAt(unit, region[i], t - EndIndex(i - 1) - 1) = trace[t].offset

\* A returned region accounts for its trace.
BlocksPartitionTrace ==
  Returned =>
    /\ Len(trace) >= 1
    /\ \A i \in 1..Len(region) : region[i].length >= 1
    /\ EndIndex(Len(region)) = Len(trace)
    /\ \A t \in 1..Len(trace) :
         Cardinality({i \in 1..Len(region) : CountedIn(t, i)}) = 1

\* A step of the build leaves every block in place, changes the length of
\* none but the last block and of that one only in the instruction loop,
\* and changes nothing else of a block that is not the last, except the
\* type predictions and reffiness predicates of the first block once the
\* instruction loop is over.
ClosedBlocksKept ==
  /\ Len(region') >= Len(region)
  /\ \A i \in (Len(region) + 1)..Len(region') : region'[i].length = 0
  /\ \A i \in 1..Len(region) :
       /\ region'[i].start = region[i].start
       /\ (i < Len(region) \/ pc # "loop") =>
            /\ region'[i].length = region[i].length
            /\ region'[i].byRefs = region[i].byRefs
            /\ (i # 1 \/ pc = "loop") => region'[i] = region[i]

(***************************************************************************)
(* C19: a returned region has no block of length 0, counts every trace     *)
(* instruction in exactly one block and its block lengths sum to the       *)
(* number of trace instructions, which is at least 1; during the build     *)
(* only the most recently created block changes length and a closed block  *)
(* is not modified again, except for the guards lifted onto the first.     *)
(***************************************************************************)
C19_BlocksPartitionTrace == []BlocksPartitionTrace /\ [][ClosedBlocksKept]_vars

\* A returned region of three blocks of one instruction each, with a
\* prediction lifted onto the first, long closed, block.
C19_Witness ==
  /\ Returned
  /\ Len(trace) = 3
  /\ Len(region) = 3
  /\ \A i \in 1..3 : region[i].length = 1
  /\ Len(region[1].typePreds) = 1

\* The annotation a rendered instruction line carries for a flag that
\* names a parameter passed by reference (byRef) or by value.
PassedAnnotation(byRef) ==
  <<" (passed ", IF byRef THEN "by reference" ELSE "by value", ")">>

(***************************************************************************)
(* C20 as stated: in the rendering of a returned region, the line of every *)
(* instruction createRegion flagged reads "(passed by reference)" when the *)
(* instruction's preppedByRef is set, i.e. the flag is ParamByRef::Yes,    *)
(* and "(passed by value)" when it is not.                                 *)
(***************************************************************************)
C20_RenderingNamesFlag ==
  Returned =>
    \A i \in 1..Len(region) : \A t \in TraceIndicesOf(i) :
      RecordsByRef(trace[t]) =>
        call.text.blocks[i].lines[t - EndIndex(i - 1)].byRef =
          PassedAnnotation(trace[t].preppedByRef)

====
